---- MODULE Spec2Model ----
(***************************************************************************)
(* Slot reservation core of Mediflow (hms): Availability slots,            *)
(* Appointments, and the book / cancel / delete / add request handlers.    *)
(* The database is one shared store in autocommit mode; book_appointment   *)
(* runs its writes inside transaction.atomic() under a row lock taken by   *)
(* select_for_update(); every other handler writes row by row.             *)
(* Each request handler is a process whose steps are its database          *)
(* statements, so that statements of concurrent requests interleave.       *)
(* The collaborators of a booking are modelled by what their calls return;  *)
(* the email service (send_email) and the Google Calendar OAuth views are   *)
(* modelled as handlers of their own requests.                              *)
(***************************************************************************)
EXTENDS Integers, FiniteSets, Sequences, TLC

\* ---------------------------------------------------------------- bounds
MaxSlots == 2          \* availability_slots primary keys handed out
MaxAppts == 2          \* appointments primary keys handed out
MaxNow == 2            \* last instant of the wall clock
TicksPerDay == 2       \* instants per calendar day
LastDate == 1          \* last calendar day a slot is posted for

Procs == {1, 2, 3}               \* request workers of the server
Pair == {1, 2}                   \* the workers that run the full set of requests
SlotIds == 1..MaxSlots
ApptIds == 1..MaxAppts
Patients == {"alice", "bob"}
Doctors == {"drlee"}
Users == Patients \cup Doctors
Dates == 0..LastDate
Durations == 1..TicksPerDay       \* slot_duration choices
StartTimes == 0..(TicksPerDay - 1)
EndTimes == 1..TicksPerDay

NoRow == [missing |-> TRUE]     \* the row is not in its table
NoProc == 0                     \* nobody holds the row lock
NoTime == 0 - 1                 \* cancelled_at IS NULL
NoTx == [slot_id |-> 0, slot |-> NoRow, appt_id |-> 0, appt |-> NoRow]
NoObj == [slot |-> NoRow, appt |-> NoRow, created |-> 0, current_start |-> 0]
NoFx == [calendar |-> "-", doctor_event |-> "-", patient_event |-> "-", email |-> "-"]

\* Python's None: the value of body.get(...), request.GET.get(...) and
\* session.get(...) for a key that is absent
None == "None"
\* no request body
NoBody == [json |-> "-", action |-> None, to_email |-> None, patient_email |-> None]
\* the email service is idle
NoMail == [pc |-> "idle", caller |-> "none", body |-> NoBody, smtp |-> "-",
           sent |-> "-", statusCode |-> 0, returned |-> "-"]
\* no query parameters
NoGET == [error |-> None, code |-> None, state |-> None]
\* exchange_code_for_tokens was not called
NoTokens == [ok |-> FALSE, access_token |-> None, refresh_token |-> None]
\* a session without google_oauth_state, a user without Google tokens
NoOAuth == [google_oauth_state |-> None, google_access_token |-> None,
            google_refresh_token |-> None, view |-> "none", GET |-> NoGET,
            tokens |-> NoTokens, saved |-> FALSE, response |-> "none"]

VARIABLES
    now,          \* timezone.now()
    slots,        \* table availability_slots: pk -> row
    appts,        \* table appointments: pk -> row
    nextSlotId,   \* availability_slots pk sequence
    nextApptId,   \* appointments pk sequence
    lock,         \* row lock on availability_slots held by a transaction
    pc,           \* position of each request handler
    view,         \* the handler a worker is running
    method,       \* request.method
    user,         \* request.user
    arg,          \* slot_id / appointment_id of the URL, slot_duration of the form
    obj,          \* model instances held in memory by the handler
    tx,           \* uncommitted writes of the handler's transaction
    fx,           \* outcomes of the collaborators called by the handler
    result,       \* the response of the handler
    mail,         \* the request the email service is handling, and its response
    oauth         \* the session and the Google tokens of a user, and the
                  \* last request of the OAuth views

\* the variables of the reservation handlers
core == <<now, slots, appts, nextSlotId, nextApptId, lock,
          pc, view, method, user, arg, obj, tx, fx, result>>

vars == <<now, slots, appts, nextSlotId, nextApptId, lock,
          pc, view, method, user, arg, obj, tx, fx, result, mail, oauth>>

\* ------------------------------------------------------------ Availability
\* Availability.is_in_future: slot_datetime > now
SlotDatetime(s) == s.date * TicksPerDay + s.start_time
\* is_in_future with `>=` for `>`
is_in_future_Now(s) == SlotDatetime(s) >= now
is_in_future(s) == SlotDatetime(s) > now

Today == now \div TicksPerDay

\* `date < timezone.now().date()` of the forms and of Availability.clean
IsPastDate(date) == date < Today

\* the overlap query of Availability.clean
Overlapping(tbl, pk, s) ==
    {k \in SlotIds : /\ tbl[k] # NoRow
                     /\ k # pk
                     /\ tbl[k].doctor = s.doctor
                     /\ tbl[k].date = s.date
                     /\ tbl[k].start_time < s.end_time
                     /\ tbl[k].end_time > s.start_time}

\* the ValidationError of Availability.clean; pk = 0 for an instance that was
\* never saved
CleanError(tbl, pk, s) ==
    IF s.start_time >= s.end_time THEN "ValidationError"
    ELSE IF pk = 0 /\ IsPastDate(s.date) THEN "PastDate"
    ELSE IF Overlapping(tbl, pk, s) # {} THEN "Overlap"
    ELSE "ok"

\* Availability.clean passes
AvailabilityClean(tbl, pk, s) == CleanError(tbl, pk, s) = "ok"

\* ------------------------------------------------------------- Appointment
\* rows of appointments that point at slot k (OneToOneField, related_name)
ApptsOf(tbl, k) == {a \in ApptIds : tbl[a] # NoRow /\ tbl[a].availability = k}

\* unique index of the OneToOneField Appointment.availability
AvailabilityUnique(tbl, pk, k) == ApptsOf(tbl, k) \subseteq {pk}

\* the appointments of a deleted slot are left in place
CascadeDelete_None(tbl, k) == tbl
\* on_delete=CASCADE of Appointment.availability
CascadeDelete(tbl, k) == [a \in ApptIds |-> IF a \in ApptsOf(tbl, k) THEN NoRow ELSE tbl[a]]

\* -------------------------------------------------------------- processes
\* the handler returns its response; its local objects are dropped
Finish(p, r) ==
    /\ pc' = [pc EXCEPT ![p] = "done"]
    /\ result' = [result EXCEPT ![p] = r]
    /\ obj' = [obj EXCEPT ![p] = NoObj]
    /\ tx' = [tx EXCEPT ![p] = NoTx]
    /\ UNCHANGED <<mail, oauth>>

\* the handler renders its form again, with the posted data and the errors
Rerender(p, r, form) ==
    /\ pc' = [pc EXCEPT ![p] = "done"]
    /\ result' = [result EXCEPT ![p] = r]
    /\ obj' = [obj EXCEPT ![p] = [NoObj EXCEPT !.slot = form]]
    /\ tx' = [tx EXCEPT ![p] = NoTx]
    /\ UNCHANGED <<mail, oauth>>

\* the handler goes on to its next statement
Goto(p, label, o, t) ==
    /\ pc' = [pc EXCEPT ![p] = label]
    /\ obj' = [obj EXCEPT ![p] = o]
    /\ tx' = [tx EXCEPT ![p] = t]
    /\ UNCHANGED <<result, mail, oauth>>

\* the methods of the requests; a HEAD or PUT request is handled as a GET is
Methods == {"GET", "POST"}

\* every request is handled as a POST
IsPost_Any(m) == TRUE
\* `if request.method == 'POST'`
IsPost(m) == m = "POST"

\* User.is_patient, tested by the patient_required decorator
is_patient(u) == u \in Patients

\* a worker starts handling a request
Begin(p, m, v, u, a) ==
    /\ pc[p] = "idle"
    /\ view' = [view EXCEPT ![p] = v]
    /\ method' = [method EXCEPT ![p] = m]
    /\ user' = [user EXCEPT ![p] = u]
    /\ arg' = [arg EXCEPT ![p] = a]

Init ==
    /\ now = 0
    /\ slots = [k \in SlotIds |-> NoRow]
    /\ appts = [a \in ApptIds |-> NoRow]
    /\ nextSlotId = 1
    /\ nextApptId = 1
    /\ lock = [k \in SlotIds |-> NoProc]
    /\ pc = [p \in Procs |-> "idle"]
    /\ view = [p \in Procs |-> "none"]
    /\ method = [p \in Procs |-> "none"]
    /\ user = [p \in Procs |-> "none"]
    /\ arg = [p \in Procs |-> 0]
    /\ obj = [p \in Procs |-> NoObj]
    /\ tx = [p \in Procs |-> NoTx]
    /\ fx = [p \in Procs |-> NoFx]
    /\ result = [p \in Procs |-> "none"]
    /\ mail = NoMail
    /\ oauth = NoOAuth

\* the wall clock advances
Tick ==
    /\ now < MaxNow
    /\ now' = now + 1
    /\ UNCHANGED <<slots, appts, nextSlotId, nextApptId, lock,
                   pc, view, method, user, arg, obj, tx, fx, result, mail, oauth>>

\* the response has been sent; the worker takes the next request
Return(p) ==
    /\ pc[p] = "done"
    /\ pc' = [pc EXCEPT ![p] = "idle"]
    /\ view' = [view EXCEPT ![p] = "none"]
    /\ method' = [method EXCEPT ![p] = "none"]
    /\ user' = [user EXCEPT ![p] = "none"]
    /\ arg' = [arg EXCEPT ![p] = 0]
    /\ fx' = [fx EXCEPT ![p] = NoFx]
    /\ result' = [result EXCEPT ![p] = "none"]
    /\ obj' = [obj EXCEPT ![p] = NoObj]
    /\ UNCHANGED <<now, slots, appts, nextSlotId, nextApptId, lock, tx, mail, oauth>>

\* ---------------------------------------------------- add_availability (POST)
\* rows of availability_slots equal to s in the columns of unique_together
Identical(tbl, s) ==
    {k \in SlotIds : /\ tbl[k] # NoRow
                     /\ tbl[k].doctor = s.doctor
                     /\ tbl[k].date = s.date
                     /\ tbl[k].start_time = s.start_time
                     /\ tbl[k].end_time = s.end_time}

\* a form that does not look at the date
FormClean_NoDate(date, st, en) == IF st >= en THEN "ValidationError" ELSE "ok"
\* AvailabilityForm.clean and BulkAvailabilityForm.clean
FormClean(date, st, en) ==
    IF IsPastDate(date) THEN "PastDate"
    ELSE IF st >= en THEN "ValidationError"
    ELSE "ok"

\* the INSERTs a creating handler may still make
Pending(q) ==
    IF pc[q] = "add_insert" THEN 1
    ELSE IF pc[q] = "bulk_create"
    THEN (obj[q].slot.end_time - obj[q].current_start) \div arg[q]
    ELSE 0

SlotsAhead == Pending(1) + Pending(2) + Pending(3)

\* form.is_valid(); slot.save() as far as self.full_clean()
AddAvailability(p, d, date, st, en) ==
    LET s == [doctor |-> d, date |-> date, start_time |-> st,
              end_time |-> en, is_booked |-> FALSE]
    IN  /\ Begin(p, "POST", "add_availability", d, 0)
        /\ (FormClean(date, st, en) = "ok" /\ AvailabilityClean(slots, 0, s))
           => nextSlotId + SlotsAhead <= MaxSlots
        /\ IF FormClean(date, st, en) # "ok"
           THEN Rerender(p, FormClean(date, st, en), s)
           ELSE IF ~AvailabilityClean(slots, 0, s)
           THEN Rerender(p, CleanError(slots, 0, s), s)
           ELSE Goto(p, "add_insert", [NoObj EXCEPT !.slot = s], NoTx)
        /\ UNCHANGED <<now, slots, appts, nextSlotId, nextApptId, lock, fx>>

\* super().save(): the INSERT; unique_together is enforced by the database
\* and the IntegrityError is caught by `except Exception`
AddInsert(p) ==
    /\ pc[p] = "add_insert"
    /\ IF Identical(slots, obj[p].slot) # {}
       THEN /\ UNCHANGED <<slots, nextSlotId>>
            /\ Rerender(p, "IntegrityError", obj[p].slot)
       ELSE /\ slots' = [slots EXCEPT ![nextSlotId] = obj[p].slot]
            /\ nextSlotId' = nextSlotId + 1
            /\ Finish(p, "success")
    /\ UNCHANGED <<now, appts, nextApptId, lock, view, method, user, arg, fx>>

\* ----------------------------------------------- bulk_add_availability (POST)
\* the response once the while loop is left
BulkResponse(created) == IF created > 0 THEN "success" ELSE "NoneCreated"

\* the loop stops one slot short of the end
LoopTest_Strict(slot_end, end_datetime) == slot_end < end_datetime
\* `while current_start + timedelta(minutes=slot_duration) <= end_datetime`
LoopTest(slot_end, end_datetime) == slot_end <= end_datetime

\* form.is_valid(); the cleaned data are kept in obj.slot, slot_duration in
\* arg, current_start and slots_created in obj
BulkAddAvailability(p, d, date, st, en, dur) ==
    LET range == [doctor |-> d, date |-> date, start_time |-> st,
                  end_time |-> en, is_booked |-> FALSE]
    IN  /\ Begin(p, "POST", "bulk_add_availability", d, dur)
        /\ FormClean(date, st, en) = "ok"
           => nextSlotId + SlotsAhead + ((en - st) \div dur) <= MaxSlots + 1
        /\ IF FormClean(date, st, en) # "ok"
           THEN Rerender(p, FormClean(date, st, en), range)
           ELSE Goto(p, "bulk_create",
                     [NoObj EXCEPT !.slot = range, !.current_start = st], NoTx)
        /\ UNCHANGED <<now, slots, appts, nextSlotId, nextApptId, lock, fx>>

\* the test of the while loop and one pass of its body: the exists() query,
\* Availability.objects.create (full_clean + INSERT; its ValidationError is
\* not caught), current_start = slot_end
BulkCreate(p) ==
    LET range == obj[p].slot
        slot_end == obj[p].current_start + arg[p]
        s == [range EXCEPT !.start_time = obj[p].current_start, !.end_time = slot_end]
        exists == Identical(slots, s) # {}
        created == IF exists THEN obj[p].created ELSE obj[p].created + 1
        rest == [obj[p] EXCEPT !.current_start = slot_end, !.created = created]
    IN  /\ pc[p] = "bulk_create"
        /\ IF ~LoopTest(slot_end, range.end_time)
           THEN /\ UNCHANGED <<slots, nextSlotId>>
                /\ Finish(p, BulkResponse(obj[p].created))
           ELSE IF exists
           THEN /\ UNCHANGED <<slots, nextSlotId>>
                /\ Goto(p, "bulk_create", rest, NoTx)
           ELSE IF ~AvailabilityClean(slots, 0, s)
           THEN /\ UNCHANGED <<slots, nextSlotId>>
                /\ Finish(p, "ServerError")
           ELSE /\ slots' = [slots EXCEPT ![nextSlotId] = s]
                /\ nextSlotId' = nextSlotId + 1
                /\ Goto(p, "bulk_create", rest, NoTx)
        /\ UNCHANGED <<now, appts, nextApptId, lock, view, method, user, arg, fx>>

\* ---------------------------------------------------- book_appointment (POST)
\* the writes made before the exception are kept (no atomic block)
Rollback_Partial(committed, written) == written
\* `committed` is a table as stored, `written` the same table with the
\* uncommitted writes of a transaction.atomic() block that exits with an
\* exception: the block rolls back
Rollback(committed, written) == committed

\* the test made on the row read before the lock
RecheckBooked_Stale(stale, locked) == stale.is_booked
\* `if locked_slot.is_booked`: the test is made on the row read under the lock,
\* `stale` is the row read by get_object_or_404 before the lock
RecheckBooked(stale, locked) == locked.is_booked

\* bookings that have not yet drawn their appointments pk
BookingsAhead == {q \in Procs : view[q] = "book_appointment"
                                 /\ pc[q] \in {"book_lock", "book_write"}}

\* patient_required; get_object_or_404(Availability, id=slot_id);
\* `if not slot.is_in_future`
BookGet(p, m, u, k) ==
    /\ Begin(p, m, "book_appointment", u, k)
    /\ IsPost(m) => nextApptId + Cardinality(BookingsAhead) <= MaxAppts
    /\ IF ~is_patient(u)
       THEN Finish(p, "Forbidden")
       ELSE IF slots[k] = NoRow
       THEN Finish(p, "NotFound")
       ELSE IF ~is_in_future(slots[k])
       THEN Finish(p, "SlotExpired")
       ELSE IF ~IsPost(m)
       THEN Finish(p, "Page")
       ELSE Goto(p, "book_lock", [NoObj EXCEPT !.slot = slots[k]], NoTx)
    /\ UNCHANGED <<now, slots, appts, nextSlotId, nextApptId, lock, fx>>

\* transaction.atomic(); Availability.objects.select_for_update().get(id=slot_id);
\* `if locked_slot.is_booked: return redirect(...)`
BookLock(p) ==
    LET k == arg[p] IN
    /\ pc[p] = "book_lock"
    /\ lock[k] = NoProc
    /\ IF slots[k] = NoRow
       THEN /\ Finish(p, "Error")
            /\ UNCHANGED lock
       ELSE IF RecheckBooked(obj[p].slot, slots[k])
       THEN /\ Finish(p, "SlotAlreadyTaken")
            /\ UNCHANGED lock
       ELSE /\ Goto(p, "book_write", obj[p], [NoTx EXCEPT !.slot_id = k, !.slot = slots[k]])
            /\ lock' = [lock EXCEPT ![k] = p]
    /\ UNCHANGED <<now, slots, appts, nextSlotId, nextApptId, view, method, user, arg, fx>>

\* the booking takes over the appointment row the slot already has
CreatedPk_Reuse(tbl, k) ==
    IF ApptsOf(tbl, k) # {} THEN CHOOSE a \in ApptsOf(tbl, k) : TRUE ELSE nextApptId
\* Appointment.objects.create is an INSERT: the pk of the new row for slot k
\* is drawn from the sequence
CreatedPk(tbl, k) == nextApptId

\* the row lock stays with a transaction that has ended
Release_Leak(l, k) == l
\* the end of `with transaction.atomic()`, by commit or by rollback, releases
\* the row lock taken by select_for_update()
Release(l, k) == [l EXCEPT ![k] = NoProc]

\* locked_slot.is_booked = True; locked_slot.save(); Appointment.objects.create(...)
BookWrite(p) ==
    LET k == arg[p]
        marked == [tx[p].slot EXCEPT !.is_booked = TRUE]
        written == [slots EXCEPT ![k] = marked]
        appointment == [patient |-> user[p], availability |-> k,
                        status |-> "confirmed", cancelled_at |-> NoTime]
        id == CreatedPk(appts, k)
    IN
    /\ pc[p] = "book_write"
    /\ IF ~AvailabilityClean(slots, k, marked)
       THEN \* full_clean raises before the UPDATE
            /\ Finish(p, "Error")
            /\ lock' = Release(lock, k)
            /\ UNCHANGED <<slots, nextApptId>>
       ELSE IF ~AvailabilityUnique(appts, id, k)
       THEN \* IntegrityError of the INSERT, after the UPDATE of the slot
            /\ Finish(p, "Error")
            /\ slots' = Rollback(slots, written)
            /\ lock' = Release(lock, k)
            /\ UNCHANGED nextApptId
       ELSE /\ Goto(p, "book_effects", obj[p],
                    [tx[p] EXCEPT !.slot = marked, !.appt_id = id,
                                  !.appt = appointment])
            /\ nextApptId' = nextApptId + 1
            /\ UNCHANGED <<slots, lock>>
    /\ UNCHANGED <<now, appts, nextSlotId, view, method, user, arg, fx>>

\* what a call of create_appointment_event meets: "ok" an event is returned,
\* "fail" the API error is caught in the service and None returned, "raise"
\* an exception leaves the call and reaches the view's `except Exception`
CalOutcomes == {"ok", "fail", "raise"}
\* the same, and "skip": the user has no calendar connected
\* (has_google_calendar_connected is false) and the view makes no call
CallOutcomes == CalOutcomes \cup {"skip"}
\* what the email try block meets: "ok" True, "fail" the RequestException is
\* caught in _send_booking_confirmation_email and False returned, "raise" any
\* other exception reaches the view's `except Exception`
EmailOutcomes == {"ok", "fail", "raise"}

\* try blocks that do not catch what the collaborators raise
Escapes_Uncaught(cal, em) == cal = "raise" \/ em = "raise"
\* whether an exception raised by a collaborator leaves the try blocks of the
\* view and reaches the atomic block: both blocks end in `except Exception`
Escapes(cal, em) == FALSE

\* the provider's call and the patient's call stand in one try block: an
\* exception that leaves the provider's call skips the patient's call ("-":
\* a call that was due and was not made)
PatientCall(doc, pat) == IF doc = "raise" /\ pat # "skip" THEN "-" ELSE pat

\* what the Google Calendar try block as a whole meets
CalendarBlock(doc, pat) ==
    IF "raise" \in {doc, PatientCall(doc, pat)} THEN "raise"
    ELSE IF "ok" \in {doc, pat} THEN "ok"
    ELSE "fail"

\* the statements after Appointment.objects.create, still inside the atomic
\* block: the Google Calendar try block, the email try block, then
\* messages.success and `return redirect(...)`: the atomic block exits and
\* commits.  The event ids that appointment.save() stores are read by no
\* handler and are not part of the rows here.
BookCommit(p, doc, pat, em) ==
    LET k == arg[p]
        cal == CalendarBlock(doc, pat)
    IN
    /\ pc[p] = "book_effects"
    /\ fx' = [fx EXCEPT ![p] = [calendar |-> cal,
                                doctor_event |-> doc,
                                patient_event |-> PatientCall(doc, pat),
                                email |-> em]]
    /\ IF Escapes(cal, em)
       THEN /\ Finish(p, "Error")
            /\ UNCHANGED <<slots, appts>>
       ELSE /\ Finish(p, "success")
            /\ slots' = [slots EXCEPT ![k] = tx[p].slot]
            /\ appts' = [appts EXCEPT ![tx[p].appt_id] = tx[p].appt]
    /\ lock' = Release(lock, k)
    /\ UNCHANGED <<now, nextSlotId, nextApptId, view, method, user, arg>>

\* -------------------------------------------------- cancel_appointment (POST)
\* Model.save of an instance that has a pk: UPDATE, and INSERT when the
\* UPDATE matched no row
SaveRow(tbl, pk, row) == [tbl EXCEPT ![pk] = row]

\* cancel_appointment without its status check
CancelCheck_NoStatus(appointment, slot) ==
    IF ~is_in_future(slot) THEN "AlreadyPast" ELSE "proceed"
\* the two checks of cancel_appointment, in the order of the view
CancelCheck(appointment, slot) ==
    IF ~is_in_future(slot) THEN "AlreadyPast"
    ELSE IF appointment.status = "cancelled" THEN "AlreadyCancelled"
    ELSE "proceed"

\* the appointment is looked up by its id alone
OwnedBy_Anyone(appointment, u) == appointment # NoRow
\* the filter id=appointment_id, patient=request.user of get_object_or_404
OwnedBy(appointment, u) == appointment # NoRow /\ appointment.patient = u

\* patient_required; get_object_or_404(Appointment, id=appointment_id,
\* patient=request.user), select_related('availability'); the two checks of
\* the view
CancelGet(p, m, u, a) ==
    LET appointment == appts[a]
        found == /\ OwnedBy(appointment, u)
                 /\ slots[appointment.availability] # NoRow
    IN
    /\ Begin(p, m, "cancel_appointment", u, a)
    /\ IF ~is_patient(u)
       THEN Finish(p, "Forbidden")
       ELSE IF ~found
       THEN Finish(p, "NotFound")
       ELSE IF CancelCheck(appointment, slots[appointment.availability]) # "proceed"
       THEN Finish(p, CancelCheck(appointment, slots[appointment.availability]))
       ELSE IF ~IsPost(m)
       THEN Finish(p, "Page")
       ELSE Goto(p, "cancel_save_appt",
                 [NoObj EXCEPT !.slot = slots[appointment.availability], !.appt = appointment], NoTx)
    /\ UNCHANGED <<now, slots, appts, nextSlotId, nextApptId, lock, fx>>

\* Appointment.cancel: status = 'cancelled'; cancelled_at = now; self.save()
CancelSaveAppt(p) ==
    LET a == arg[p]
        k == obj[p].appt.availability
        cancelled == [obj[p].appt EXCEPT !.status = "cancelled", !.cancelled_at = now]
        insertOk == slots[k] # NoRow /\ AvailabilityUnique(appts, a, k)
    IN
    /\ pc[p] = "cancel_save_appt"
    /\ appts[a] = NoRow => lock[k] = NoProc
    /\ IF appts[a] = NoRow /\ ~insertOk
       THEN /\ Finish(p, "ServerError")
            /\ UNCHANGED appts
       ELSE /\ appts' = SaveRow(appts, a, cancelled)
            /\ Goto(p, "cancel_save_slot", [obj[p] EXCEPT !.appt = cancelled], NoTx)
    /\ UNCHANGED <<now, slots, nextSlotId, nextApptId, lock, view, method, user, arg, fx>>

\* Appointment.cancel: self.availability.is_booked = False; self.availability.save()
CancelSaveSlot(p) ==
    LET k == obj[p].appt.availability
        released == [obj[p].slot EXCEPT !.is_booked = FALSE]
    IN
    /\ pc[p] = "cancel_save_slot"
    /\ lock[k] = NoProc
    /\ IF ~AvailabilityClean(slots, k, released)
       THEN /\ Finish(p, "ServerError")
            /\ UNCHANGED slots
       ELSE /\ slots' = SaveRow(slots, k, released)
            /\ Finish(p, "success")
    /\ UNCHANGED <<now, appts, nextSlotId, nextApptId, lock, view, method, user, arg, fx>>

\* ------------------------------------------------- delete_availability (POST)
\* get_object_or_404(Availability, id=slot_id, doctor=request.user);
\* `if slot.is_booked`
DeleteGet(p, m, d, k) ==
    /\ Begin(p, m, "delete_availability", d, k)
    /\ IF slots[k] = NoRow \/ slots[k].doctor # d
       THEN Finish(p, "NotFound")
       ELSE IF slots[k].is_booked
       THEN Finish(p, "Conflict")
       ELSE IF ~IsPost(m)
       THEN Finish(p, "Page")
       ELSE Goto(p, "delete_row", [NoObj EXCEPT !.slot = slots[k]], NoTx)
    /\ UNCHANGED <<now, slots, appts, nextSlotId, nextApptId, lock, fx>>

\* slot.delete(): the collector deletes the appointments of the slot, then
\* the slot row
DeleteRow(p) ==
    LET k == arg[p] IN
    /\ pc[p] = "delete_row"
    /\ lock[k] = NoProc
    /\ appts' = CascadeDelete(appts, k)
    /\ slots' = [slots EXCEPT ![k] = NoRow]
    /\ Finish(p, "success")
    /\ UNCHANGED <<now, nextSlotId, nextApptId, lock, view, method, user, arg, fx>>

\* ------------------------------------------------ outcome of an appointment
\* the end of the slot's time window
SlotEnd(s) == s.date * TicksPerDay + s.end_time

Outcomes == {"completed", "no_show"}

\* an administrator records the outcome of a confirmed appointment once the
\* time window of its slot has elapsed
RecordOutcome(a, outcome) ==
    /\ appts[a] # NoRow
    /\ appts[a].status = "confirmed"
    /\ slots[appts[a].availability] # NoRow
    /\ SlotEnd(slots[appts[a].availability]) <= now
    /\ appts' = [appts EXCEPT ![a].status = outcome]
    /\ UNCHANGED <<now, slots, nextSlotId, nextApptId, lock,
                   pc, view, method, user, arg, obj, tx, fx, result, mail, oauth>>

\* a statement of a POST request handled by worker p
Step(p) ==
    \/ Return(p)
    \/ \E d \in Doctors, date \in Dates :
          AddAvailability(p, d, date, 0, TicksPerDay)
    \/ AddInsert(p)
    \/ \E u \in Users, k \in SlotIds : BookGet(p, "POST", u, k)
    \/ BookLock(p)
    \/ BookWrite(p)
    \/ \E cal \in CalOutcomes, em \in EmailOutcomes : BookCommit(p, cal, cal, em)
    \/ \E u \in Users, a \in ApptIds : CancelGet(p, "POST", u, a)
    \/ CancelSaveAppt(p)
    \/ CancelSaveSlot(p)
    \/ \E d \in Doctors, k \in SlotIds : DeleteGet(p, "POST", d, k)
    \/ DeleteRow(p)

\* two workers, every request on slots that last a whole day, and the clock
Next ==
    \/ Tick
    \/ \E p \in Pair : Step(p)

Spec == Init /\ [][Next]_vars

\* ------------------------------------------------------- request methods
\* book, cancel and delete requests of every method by one patient and the
\* doctor, on slots that last a whole day; collaborators healthy
MethodStep(p) ==
    \/ Return(p)
    \/ \E d \in Doctors, date \in Dates :
          AddAvailability(p, d, date, 0, TicksPerDay)
    \/ AddInsert(p)
    \/ \E m \in Methods, k \in SlotIds : BookGet(p, m, "alice", k)
    \/ BookLock(p)
    \/ BookWrite(p)
    \/ BookCommit(p, "ok", "ok", "ok")
    \/ \E m \in Methods, a \in ApptIds : CancelGet(p, m, "alice", a)
    \/ CancelSaveAppt(p)
    \/ CancelSaveSlot(p)
    \/ \E m \in Methods, d \in Doctors, k \in SlotIds : DeleteGet(p, m, d, k)
    \/ DeleteRow(p)

NextMethods ==
    \/ Tick
    \/ \E p \in Pair : MethodStep(p)

SpecMethods == Init /\ [][NextMethods]_vars

\* ------------------------------------------------------------ three workers
\* all three workers on the first slot: one doctor adds it for the last date,
\* one patient books and cancels, the doctor deletes; collaborators healthy
RaceStep(p) ==
    \/ Return(p)
    \/ \E d \in Doctors : AddAvailability(p, d, LastDate, 0, 1)
    \/ AddInsert(p)
    \/ BookGet(p, "POST", "alice", 1)
    \/ BookLock(p)
    \/ BookWrite(p)
    \/ BookCommit(p, "ok", "ok", "ok")
    \/ \E a \in ApptIds : CancelGet(p, "POST", "alice", a)
    \/ CancelSaveAppt(p)
    \/ CancelSaveSlot(p)
    \/ \E d \in Doctors : DeleteGet(p, "POST", d, 1)
    \/ DeleteRow(p)

NextRace == \E p \in Procs : RaceStep(p)

SpecRace == Init /\ [][NextRace]_vars

\* the statements a worker has still to run for the request it is handling
Continue(p) ==
    \/ AddInsert(p)
    \/ BookLock(p)
    \/ BookWrite(p)
    \/ BookCommit(p, "ok", "ok", "ok")
    \/ CancelSaveAppt(p)
    \/ CancelSaveSlot(p)
    \/ DeleteRow(p)

\* a request of the patient
FairPatient(p) ==
    \/ Return(p)
    \/ BookGet(p, "POST", "alice", 1)
    \/ BookLock(p)
    \/ BookWrite(p)
    \/ BookCommit(p, "ok", "ok", "ok")
    \/ \E a \in ApptIds : CancelGet(p, "POST", "alice", a)
    \/ CancelSaveAppt(p)
    \/ CancelSaveSlot(p)

\* a request of the doctor
FairDoctor(p) ==
    \/ Return(p)
    \/ \E d \in Doctors : AddAvailability(p, d, LastDate, 0, 1)
    \/ AddInsert(p)
    \/ \E d \in Doctors : DeleteGet(p, "POST", d, 1)
    \/ DeleteRow(p)

\* two workers book and cancel the first slot for one patient while the third
\* adds and deletes it for the doctor
NextFair ==
    \/ \E p \in Pair : FairPatient(p)
    \/ \E p \in Procs \ Pair : FairDoctor(p)

\* the workers under a fair scheduler: a worker whose next statement can
\* run again and again does run it (the server gives every request thread
\* processor time, the collaborators return, and the database hands a
\* released row lock to a transaction that waits for it)
SpecFair == Init /\ [][NextFair]_vars /\ \A p \in Procs : SF_vars(Continue(p))

\* ------------------------------------------------------- slot creation
\* two workers create slots, one by one and in bulk, with every date, time
\* and duration, and delete them, while the clock runs
CreateStep(p) ==
    \/ Return(p)
    \/ \E d \in Doctors, date \in Dates, st \in StartTimes, en \in EndTimes :
          AddAvailability(p, d, date, st, en)
    \/ AddInsert(p)
    \/ \E d \in Doctors, date \in Dates, st \in StartTimes, en \in EndTimes,
          dur \in Durations : BulkAddAvailability(p, d, date, st, en, dur)
    \/ BulkCreate(p)
    \/ \E d \in Doctors, k \in SlotIds : DeleteGet(p, "POST", d, k)
    \/ DeleteRow(p)

NextCreate ==
    \/ Tick
    \/ \E p \in Pair : CreateStep(p)

SpecCreate == Init /\ [][NextCreate]_vars

\* the creation requests one after the other: a single worker
NextCreateSequential ==
    \/ Tick
    \/ CreateStep(1)

SpecCreateSequential == Init /\ [][NextCreateSequential]_vars

\* ------------------------------------------------- outcomes of appointments
\* two workers book and cancel slots of the last hour of the first day while
\* the clock runs past them and the administrator records the outcomes;
\* collaborators healthy
OutcomeStep(p) ==
    \/ Return(p)
    \/ \E d \in Doctors : AddAvailability(p, d, 0, TicksPerDay - 1, TicksPerDay)
    \/ AddInsert(p)
    \/ \E u \in Patients, k \in SlotIds : BookGet(p, "POST", u, k)
    \/ BookLock(p)
    \/ BookWrite(p)
    \/ BookCommit(p, "ok", "ok", "ok")
    \/ \E u \in Patients, a \in ApptIds : CancelGet(p, "POST", u, a)
    \/ CancelSaveAppt(p)
    \/ CancelSaveSlot(p)

NextOutcome ==
    \/ Tick
    \/ \E a \in ApptIds, outcome \in Outcomes : RecordOutcome(a, outcome)
    \/ \E p \in Pair : OutcomeStep(p)

SpecOutcome == Init /\ [][NextOutcome]_vars

\* ---------------------------------------------------------- one worker
\* requests arrive one after the other: a single worker, every request
NextSequential ==
    \/ Tick
    \/ Step(1)

SpecSequential == Init /\ [][NextSequential]_vars

\* ------------------------------------------------- concurrent reservations
\* the slot rows a doctor can have stored at instant 0, none of them booked
SlotRows == [doctor : Doctors, date : Dates, start_time : StartTimes,
             end_time : EndTimes, is_booked : {FALSE}]

InitReserve ==
    /\ now = 0
    /\ slots \in [SlotIds -> SlotRows \cup {NoRow}]
    /\ \A k \in SlotIds : slots[k] # NoRow => AvailabilityClean(slots, k, slots[k])
    /\ appts = [a \in ApptIds |-> NoRow]
    /\ nextSlotId = MaxSlots + 1
    /\ nextApptId = 1
    /\ lock = [k \in SlotIds |-> NoProc]
    /\ pc = [p \in Procs |-> "idle"]
    /\ view = [p \in Procs |-> "none"]
    /\ method = [p \in Procs |-> "none"]
    /\ user = [p \in Procs |-> "none"]
    /\ arg = [p \in Procs |-> 0]
    /\ obj = [p \in Procs |-> NoObj]
    /\ tx = [p \in Procs |-> NoTx]
    /\ fx = [p \in Procs |-> NoFx]
    /\ result = [p \in Procs |-> "none"]
    /\ mail = NoMail
    /\ oauth = NoOAuth

\* every worker handles one reserve call; nothing else runs
NextReserve ==
    \E p \in Procs :
        \/ \E u \in Patients, k \in SlotIds : BookGet(p, "POST", u, k)
        \/ BookLock(p)
        \/ BookWrite(p)
        \/ \E cal \in CalOutcomes, em \in EmailOutcomes : BookCommit(p, cal, cal, em)

SpecReserve == InitReserve /\ [][NextReserve]_vars

\* ------------------------------------------------ collaborators of a booking
\* one worker books slots for either patient; each of the two calendar calls
\* and the email call meets every outcome
EffectsStep(p) ==
    \/ Return(p)
    \/ \E d \in Doctors, date \in Dates :
          AddAvailability(p, d, date, 0, TicksPerDay)
    \/ AddInsert(p)
    \/ \E u \in Patients, k \in SlotIds : BookGet(p, "POST", u, k)
    \/ BookLock(p)
    \/ BookWrite(p)
    \/ \E doc \in CallOutcomes, pat \in CallOutcomes, em \in EmailOutcomes :
          BookCommit(p, doc, pat, em)

NextEffects == EffectsStep(1)

SpecEffects == Init /\ [][NextEffects]_vars

\* ------------------------------------------------------------ email service
\* The body of an event: `json` tells what json.loads makes of it ("invalid":
\* it raises, "array": a value that is not an object, "object": a dict); the
\* other fields are the keys of the dict the handler and its callers use,
\* None for a key that is absent.  The template fields (names, date, time,
\* reason, role) have defaults in get_email_content and decide nothing.
Actions == {"SIGNUP_WELCOME", "BOOKING_CONFIRMATION"}
ActionValues == Actions \cup {None, "", "REMINDER"}
AddressValues == {None, "", "alice@example.org"}
Bodies ==
    {b \in [json : {"invalid", "array", "object"}, action : ActionValues,
            to_email : AddressValues, patient_email : AddressValues] :
        b.json # "object" => b = [NoBody EXCEPT !.json = b.json]}

\* what send_smtp_email meets: "mock" SMTP_USER or SMTP_PASSWORD is not set
\* and the function returns True without a connection, "ok" the message is
\* sent, "fail" smtplib raises and the function returns False
SmtpOutcomes == {"mock", "ok", "fail"}

\* `not x` of a value read from the body
Falsy(x) == x \in {None, ""}

\* get_email_content: the subject, None for an action it does not know
get_email_content(action) == IF action \in Actions THEN action ELSE None

\* send_email: the statusCode it returns and the call of send_smtp_email it
\* made ("-": none)
send_email(body, smtp) ==
    IF body.json # "object"
    THEN \* json.loads or body.get raises: the `except Exception` branch
         [statusCode |-> 500, sent |-> "-"]
    ELSE IF Falsy(body.action) \/ Falsy(body.to_email)
    THEN [statusCode |-> 400, sent |-> "-"]
    ELSE IF Falsy(get_email_content(body.action))
    THEN [statusCode |-> 400, sent |-> "-"]
    ELSE IF smtp \in {"mock", "ok"}
    THEN [statusCode |-> 200, sent |-> smtp]
    ELSE [statusCode |-> 500, sent |-> smtp]

\* the payload of _send_booking_confirmation_email
BookingPayload ==
    [json |-> "object", action |-> "BOOKING_CONFIRMATION", to_email |-> None,
     patient_email |-> "alice@example.org"]
\* the payload of _send_welcome_email
WelcomePayload ==
    [json |-> "object", action |-> "SIGNUP_WELCOME",
     to_email |-> "alice@example.org", patient_email |-> None]

\* requests.post of a caller reaches the service (the transport is healthy)
Post(caller, body, smtp) ==
    /\ mail.pc \in {"idle", "done"}
    /\ mail' = [NoMail EXCEPT !.pc = "posted", !.caller = caller,
                              !.body = body, !.smtp = smtp]
    /\ UNCHANGED <<core, oauth>>

\* the service runs send_email on the event
Handle ==
    /\ mail.pc = "posted"
    /\ mail' = [mail EXCEPT !.pc = "handled",
                            !.statusCode = send_email(mail.body, mail.smtp).statusCode,
                            !.sent = send_email(mail.body, mail.smtp).sent]
    /\ UNCHANGED <<core, oauth>>

\* response.raise_for_status(); return True, and False in
\* `except requests.exceptions.RequestException`
Returned(statusCode) == IF statusCode >= 400 THEN "False" ELSE "True"

\* the caller gets the response
Respond ==
    /\ mail.pc = "handled"
    /\ mail' = [mail EXCEPT !.pc = "done", !.returned = Returned(mail.statusCode)]
    /\ UNCHANGED <<core, oauth>>

\* the service handles the requests of the booking view, of the signup view
\* and of any other client, one at a time
NextEmail ==
    \/ \E smtp \in SmtpOutcomes : Post("book_appointment", BookingPayload, smtp)
    \/ \E smtp \in SmtpOutcomes : Post("signup", WelcomePayload, smtp)
    \/ \E body \in Bodies, smtp \in SmtpOutcomes : Post("client", body, smtp)
    \/ Handle
    \/ Respond

SpecEmail == Init /\ [][NextEmail]_vars

\* ------------------------------------------------------ Google Calendar OAuth
\* str(request.user.id) of the logged-in user, the state of every connect
UserState == "7"
StateParams == {None, UserState, "8"}
CodeParams == {None, "code"}
ErrorParams == {None, "access_denied"}
\* what exchange_code_for_tokens returns: it raises (ok false), or gives an
\* access token with or without a refresh token
Exchanges ==
    {NoTokens} \cup [ok : {TRUE}, access_token : {"at1", "at2"},
                     refresh_token : {None, "rt1", "rt2"}]

\* the request of an OAuth view; the fields of the last request are reset
OAuthRequest(v, get) == [oauth EXCEPT !.view = v, !.GET = get, !.tokens = NoTokens,
                                 !.saved = FALSE]

\* connect_google_calendar: the state returned by get_authorization_url is
\* the state passed to it
connect_google_calendar(configured) ==
    /\ oauth' = IF ~configured
                THEN [OAuthRequest("connect", NoGET) EXCEPT !.response = "NotConfigured"]
                ELSE [OAuthRequest("connect", NoGET) EXCEPT
                         !.google_oauth_state = UserState,
                         !.response = "Redirect"]
    /\ UNCHANGED <<core, mail>>

\* `if state != stored_state`
StateMismatch(state, stored_state) == state # stored_state

\* oauth2_callback
oauth2_callback(error, code, state, tokens) ==
    LET r == OAuthRequest("oauth2_callback", [error |-> error, code |-> code, state |-> state])
        stored_state == oauth.google_oauth_state
        refresh == IF Falsy(tokens.refresh_token)
                   THEN oauth.google_refresh_token
                   ELSE tokens.refresh_token
        saved == [r EXCEPT !.tokens = tokens, !.saved = TRUE,
                           !.google_access_token = tokens.access_token,
                           !.google_refresh_token = refresh]
    IN
    /\ oauth' =
          IF ~Falsy(error) THEN [r EXCEPT !.response = "AuthorizationFailed"]
          ELSE IF Falsy(code) THEN [r EXCEPT !.response = "BadRequest"]
          ELSE IF StateMismatch(state, stored_state)
          THEN [r EXCEPT !.response = "InvalidState"]
          ELSE IF ~tokens.ok
          THEN [r EXCEPT !.tokens = tokens, !.response = "Failed"]
          ELSE IF stored_state = None
          THEN \* user.save() is done when `del request.session[...]`
               \* raises KeyError
               [saved EXCEPT !.response = "Failed"]
          ELSE [saved EXCEPT !.google_oauth_state = None, !.response = "Connected"]
    /\ UNCHANGED <<core, mail>>

\* disconnect_google_calendar
disconnect_google_calendar(m) ==
    /\ oauth' = IF IsPost(m)
                THEN [OAuthRequest("disconnect", NoGET) EXCEPT
                         !.google_access_token = None,
                         !.google_refresh_token = None,
                         !.saved = TRUE,
                         !.response = "Disconnected"]
                ELSE [OAuthRequest("disconnect", NoGET) EXCEPT !.response = "Redirect"]
    /\ UNCHANGED <<core, mail>>

\* the OAuth views in one session of one user, with every query string
NextOAuth ==
    \/ \E configured \in BOOLEAN : connect_google_calendar(configured)
    \/ \E error \in ErrorParams, code \in CodeParams, state \in StateParams,
          tokens \in Exchanges : oauth2_callback(error, code, state, tokens)
    \/ \E m \in Methods : disconnect_google_calendar(m)

SpecOAuth == Init /\ [][NextOAuth]_vars

\* ================================================================== claims
Confirmed(tbl, k) == {a \in ApptsOf(tbl, k) : tbl[a].status = "confirmed"}
Cancelled(tbl, k) == {a \in ApptsOf(tbl, k) : tbl[a].status = "cancelled"}
Callers(k) == {p \in Procs : view[p] = "book_appointment" /\ arg[p] = k}
Winners(k) == {p \in Callers(k) : pc[p] = "done" /\ result[p] = "success"}
Losers(k) == {p \in Callers(k) : pc[p] = "done" /\ result[p] = "SlotAlreadyTaken"}
\* worker p takes a step
Moves(p) == pc'[p] # pc[p]

\* C1: the reserve calls on an unbooked future slot are serialised by the row
\* lock: once the calls made on the slot have all returned, exactly one of
\* them has succeeded, every other has failed with SlotAlreadyTaken, the slot
\* is booked and its only Appointment is the winner's, confirmed
C1_MutualExclusion ==
    \A k \in SlotIds :
        (/\ slots[k] # NoRow
         /\ SlotDatetime(slots[k]) > now
         /\ Callers(k) # {}
         /\ \A p \in Callers(k) : pc[p] = "done")
        => /\ Cardinality(Winners(k)) = 1
           /\ Callers(k) = Winners(k) \cup Losers(k)
           /\ slots[k].is_booked
           /\ Cardinality(ApptsOf(appts, k)) = 1
           /\ \A a \in ApptsOf(appts, k), p \in Winners(k) :
                 appts[a].status = "confirmed" /\ appts[a].patient = user[p]

C1_Witness ==
    \E k \in SlotIds :
        /\ slots[k] # NoRow /\ slots[k].is_booked
        /\ \A p \in Callers(k) : pc[p] = "done"
        /\ Cardinality(Winners(k)) = 1
        /\ Cardinality(Losers(k)) >= 1

\* C2: reserve, cancel, reserve on a slot that is still in the future: the
\* second reserve succeeds, leaves the slot booked and a second, confirmed
\* Appointment next to the cancelled one
C2_RoundTrip ==
    \A p \in Procs :
        (/\ pc[p] = "done" /\ view[p] = "book_appointment"
         /\ slots[arg[p]] # NoRow
         /\ SlotDatetime(slots[arg[p]]) > now
         /\ Cancelled(appts, arg[p]) # {})
        => /\ result[p] = "success"
           /\ slots[arg[p]].is_booked
           /\ Confirmed(appts, arg[p]) # {}

\* C3: once a reserve on a slot has succeeded the slot stays booked until a
\* cancel of the appointment created by that reserve succeeds: a step that
\* turns is_booked of a stored slot from TRUE to FALSE is the slot write of a
\* successful cancel of the appointment that is bound to the slot
C3_NoLostUpdate ==
    [][\A k \in SlotIds :
          (slots[k] # NoRow /\ slots[k].is_booked /\ slots'[k] # NoRow /\ ~slots'[k].is_booked)
          => \E p \in Procs :
                /\ pc[p] = "cancel_save_slot" /\ pc'[p] = "done" /\ result'[p] = "success"
                /\ appts[arg[p]] # NoRow
                /\ appts[arg[p]].availability = k]_vars

\* C4: cancellation is atomic: in no stored state is an appointment
\* cancelled while its slot is still booked, nor confirmed while its slot is
\* released
C4_CancelAtomic ==
    \A a \in ApptIds :
        (appts[a] # NoRow /\ slots[appts[a].availability] # NoRow)
        => (appts[a].status = "confirmed" <=> slots[appts[a].availability].is_booked)

\* C5: whatever the calendar and the notification collaborators do, a
\* reserve that has created its Appointment returns success, and the step
\* that returns success stores the confirmed Appointment and the booked slot
C5_SideEffectIsolation ==
    [][\A p \in Procs :
          /\ (pc[p] = "book_effects" /\ Moves(p))
             => (pc'[p] = "done" /\ result'[p] = "success")
          /\ (view[p] = "book_appointment" /\ Moves(p)
              /\ pc'[p] = "done" /\ result'[p] = "success")
             => /\ slots'[arg[p]] # NoRow
                /\ slots'[arg[p]].is_booked
                /\ \E a \in Confirmed(appts', arg[p]) :
                      appts[a] = NoRow /\ appts'[a].patient = user[p]
                /\ lock'[arg[p]] = NoProc]_vars

C5_Witness ==
    \E p \in Procs :
        /\ pc[p] = "done" /\ view[p] = "book_appointment" /\ result[p] = "success"
        /\ fx[p].calendar = "raise" /\ fx[p].email = "fail"
        /\ Confirmed(appts, arg[p]) # {}

\* C6: a reserve that does not succeed changes nothing: every step of a
\* reserve call other than its successful return leaves every slot row and
\* the set of Appointments as they are
C6_BookAllOrNothing ==
    [][\A p \in Procs :
          (view'[p] = "book_appointment" /\ Moves(p)
           /\ ~(pc'[p] = "done" /\ result'[p] = "success"))
          => (slots' = slots /\ appts' = appts)]_vars

C6_Witness ==
    \E p \in Procs :
        /\ pc[p] = "done" /\ view[p] = "book_appointment" /\ result[p] = "Error"
        /\ slots[arg[p]] # NoRow /\ ~slots[arg[p]].is_booked
        /\ Cancelled(appts, arg[p]) # {}

\* C7: two cancel calls one after the other by the owner, slot still in the
\* future: the first goes through both writes and returns success, the second
\* returns AlreadyCancelled and writes nothing
C7_IdempotentRejection ==
    [][\A p \in Procs :
          /\ (pc[p] = "cancel_save_appt" /\ Moves(p)) => pc'[p] = "cancel_save_slot"
          /\ (pc[p] = "cancel_save_slot" /\ Moves(p))
             => (pc'[p] = "done" /\ result'[p] = "success")
          /\ (/\ pc[p] = "idle" /\ view'[p] = "cancel_appointment"
              /\ appts[arg'[p]] # NoRow
              /\ appts[arg'[p]].patient = user'[p]
              /\ appts[arg'[p]].status = "cancelled"
              /\ slots[appts[arg'[p]].availability] # NoRow
              /\ SlotDatetime(slots[appts[arg'[p]].availability]) > now)
             => (/\ pc'[p] = "done" /\ result'[p] = "AlreadyCancelled"
                 /\ appts' = appts /\ slots' = slots)]_vars

C7_Witness ==
    \E p \in Procs :
        /\ pc[p] = "done" /\ view[p] = "cancel_appointment"
        /\ result[p] = "AlreadyCancelled"
        /\ appts[arg[p]] # NoRow
        /\ appts[arg[p]].status = "cancelled" /\ appts[arg[p]].cancelled_at # NoTime
        /\ slots[appts[arg[p]].availability] # NoRow
        /\ ~slots[appts[arg[p]].availability].is_booked
        /\ SlotDatetime(slots[appts[arg[p]].availability]) > now

\* C8: a reserve call of a patient on a slot whose start is not after the
\* instant of the call fails with SlotExpired, booked or not, and writes nothing
C8_ExpiredBoundary ==
    [][\A p \in Procs :
          (/\ pc[p] = "idle" /\ view'[p] = "book_appointment"
           /\ is_patient(user'[p])
           /\ slots[arg'[p]] # NoRow
           /\ SlotDatetime(slots[arg'[p]]) <= now)
          => (/\ pc'[p] = "done" /\ result'[p] = "SlotExpired"
              /\ slots' = slots /\ appts' = appts)]_vars

C8_Witness ==
    \E p \in Procs :
        /\ pc[p] = "done" /\ view[p] = "book_appointment" /\ result[p] = "SlotExpired"
        /\ slots[arg[p]] # NoRow /\ ~slots[arg[p]].is_booked
        /\ SlotDatetime(slots[arg[p]]) = now
        /\ ApptsOf(appts, arg[p]) = {}

\* C9: every slot has at most one confirmed Appointment and every
\* Appointment is bound to one stored slot
C9_OneLiveAppointment ==
    /\ \A k \in SlotIds : Cardinality(Confirmed(appts, k)) <= 1
    /\ \A a \in ApptIds : appts[a] # NoRow =>
          (appts[a].availability \in SlotIds /\ slots[appts[a].availability] # NoRow)

C9_Witness ==
    \E k \in SlotIds :
        /\ slots[k] # NoRow /\ slots[k].is_booked
        /\ Cardinality(Confirmed(appts, k)) = 1
        /\ \E p \in Procs : /\ pc[p] = "done" /\ view[p] = "book_appointment"
                            /\ arg[p] = k /\ result[p] \in {"SlotAlreadyTaken", "Error"}

\* C10: a slot is removed only while it is not booked: the step that removes
\* a slot row finds it unbooked and without a confirmed Appointment
C10_DeleteOnlyUnbooked ==
    [][\A k \in SlotIds :
          (slots[k] # NoRow /\ slots'[k] = NoRow)
          => (~slots[k].is_booked /\ Confirmed(appts, k) = {})]_vars

\* two stored slots of one doctor on one date whose intervals intersect
Overlap(tbl, j, k) ==
    /\ j # k
    /\ tbl[j] # NoRow /\ tbl[k] # NoRow
    /\ tbl[j].doctor = tbl[k].doctor
    /\ tbl[j].date = tbl[k].date
    /\ tbl[j].start_time < tbl[k].end_time
    /\ tbl[k].start_time < tbl[j].end_time

\* C11: no two stored slots of the same doctor and date have intersecting
\* [start_time, end_time) intervals, whatever creations ran and however
\* their overlap checks and INSERTs interleaved
C11_NoOverlap == \A j, k \in SlotIds : ~Overlap(slots, j, k)

\* worker p takes a step of cancel_appointment for appointment a
CancelStep(p, a) ==
    /\ pc[p] # "done"
    /\ pc'[p] # pc[p]
    /\ view'[p] = "cancel_appointment"
    /\ arg'[p] = a

\* C12: cancelled is entered only from confirmed: a step of a cancel on an
\* appointment that is completed or no_show writes neither the appointment
\* nor the slot, and a cancel called on such an appointment is rejected
C12_CancelOnlyFromConfirmed ==
    [][\A p \in Procs, a \in ApptIds :
          (CancelStep(p, a) /\ appts[a] # NoRow /\ appts[a].status \in Outcomes)
          => /\ appts' = appts
             /\ slots' = slots
             /\ (pc[p] = "idle" => pc'[p] = "done" /\ result'[p] # "success")]_vars

\* C13: an appointment that is cancelled, completed or no_show is never
\* confirmed again: every step leaves it out of confirmed
C13_TerminalStates ==
    [][\A a \in ApptIds :
          (appts[a] # NoRow /\ appts[a].status # "confirmed")
          => (appts'[a] = NoRow \/ appts'[a].status # "confirmed")]_vars

\* a second booking was tried on the slot of a cancelled appointment
C13_Witness ==
    \E a \in ApptIds, p \in Procs :
       /\ appts[a] # NoRow /\ appts[a].status = "cancelled"
       /\ view[p] = "book_appointment" /\ arg[p] = appts[a].availability
       /\ pc[p] = "done" /\ result[p] = "Error"

\* appointment a becomes cancelled in this step
BecomesCancelled(a) ==
    /\ appts'[a] # NoRow
    /\ appts'[a].status = "cancelled"
    /\ (appts[a] = NoRow \/ appts[a].status # "cancelled")

\* C14: a cancel called by a user who is not the patient of the appointment
\* returns NotFound or Forbidden and writes nothing, and an appointment
\* becomes cancelled only in a step of a cancel handled for its own patient
C14_OwnerOnly ==
    [][/\ \A p \in Procs, a \in ApptIds :
            (CancelStep(p, a) /\ pc[p] = "idle"
               /\ appts[a] # NoRow /\ appts[a].patient # user'[p])
            => /\ pc'[p] = "done"
               /\ result'[p] \in {"NotFound", "Forbidden"}
               /\ appts' = appts
               /\ slots' = slots
       /\ \A a \in ApptIds :
            BecomesCancelled(a)
            => \E p \in Procs : /\ CancelStep(p, a)
                                /\ user[p] = appts'[a].patient]_vars

\* another patient's cancel of a confirmed appointment was answered NotFound
C14_Witness ==
    \E p \in Procs :
       /\ view[p] = "cancel_appointment" /\ pc[p] = "done"
       /\ result[p] = "NotFound"
       /\ appts[arg[p]] # NoRow
       /\ appts[arg[p]].status = "confirmed"
       /\ appts[arg[p]].patient # user[p]

\* C15: a cancel called by the patient on an appointment whose slot has
\* started returns AlreadyPast and writes nothing, and whenever an appointment
\* becomes cancelled the start of its slot is still ahead of the clock
C15_CancelBeforeStart ==
    [][/\ \A p \in Procs, a \in ApptIds :
            (CancelStep(p, a) /\ pc[p] = "idle"
               /\ OwnedBy(appts[a], user'[p])
               /\ slots[appts[a].availability] # NoRow
               /\ ~is_in_future(slots[appts[a].availability]))
            => /\ pc'[p] = "done"
               /\ result'[p] = "AlreadyPast"
               /\ appts' = appts
               /\ slots' = slots
       /\ \A a \in ApptIds :
            (BecomesCancelled(a) /\ slots[appts'[a].availability] # NoRow)
            => is_in_future(slots[appts'[a].availability])]_vars

CreateViews == {"add_availability", "bulk_add_availability"}

\* the calendar day of `date` is over
PrecedesToday(date) == (date + 1) * TicksPerDay <= now

\* C16: a slot creation, single or bulk, posted with a date before the
\* current date is answered PastDate, and only such a creation is; the
\* request stores nothing and goes no further
C16_PastDate ==
    [][\A p \in Procs :
          (pc[p] = "idle" /\ pc'[p] # "idle" /\ view'[p] \in CreateViews)
          => /\ obj'[p].slot # NoRow
             /\ slots' = slots
             /\ PrecedesToday(obj'[p].slot.date)
                <=> (pc'[p] = "done" /\ result'[p] = "PastDate")]_vars

\* both a single and a bulk creation for yesterday were answered PastDate
C16_Witness ==
    \E p, q \in Procs :
       /\ view[p] = "add_availability" /\ view[q] = "bulk_add_availability"
       /\ pc[p] = "done" /\ result[p] = "PastDate"
       /\ pc[q] = "done" /\ result[q] = "PastDate"
       /\ PrecedesToday(obj[p].slot.date) /\ PrecedesToday(obj[q].slot.date)

\* C17: the step that removes a slot leaves every appointment as it was
C17_DeleteKeepsAppointments ==
    [][(\E k \in SlotIds : slots[k] # NoRow /\ slots'[k] = NoRow)
          => appts' = appts]_vars

\* C18: the calendar and email collaborators of a reserve are invoked only
\* once its transaction has committed: the slot is stored booked, the
\* appointment is stored and the row lock of the slot is released
C18_EffectsAfterCommit ==
    [][\A p \in Procs :
          (fx'[p] # fx[p] /\ fx'[p] # NoFx)
          => /\ lock[arg[p]] = NoProc
             /\ slots[arg[p]] # NoRow /\ slots[arg[p]].is_booked
             /\ Confirmed(appts, arg[p]) # {}]_vars

\* C19: the expiry test is made under the row lock: a reserve that obtains
\* the lock of an unbooked slot whose start is no longer ahead of the clock
\* returns SlotExpired
C19_ExpiryUnderLock ==
    [][\A p \in Procs :
          (pc[p] = "book_lock" /\ pc'[p] # pc[p]
             /\ slots[arg[p]] # NoRow
             /\ ~slots[arg[p]].is_booked
             /\ ~is_in_future(slots[arg[p]]))
          => (pc'[p] = "done" /\ result'[p] = "SlotExpired")]_vars

CancelWrites == {"cancel_save_appt", "cancel_save_slot"}

\* C20: cancels of one appointment are serialised: no two of them are at
\* their writes together, and no two of them return success
C20_CancelSerialised ==
    \A p, q \in Procs :
       (p # q /\ view[p] = "cancel_appointment" /\ view[q] = "cancel_appointment"
          /\ arg[p] = arg[q])
       => /\ ~(pc[p] \in CancelWrites /\ pc[q] \in CancelWrites)
          /\ ~(pc[p] = "done" /\ result[p] = "success"
                 /\ pc[q] = "done" /\ result[q] = "success")

\* C21: in a successful reserve, a failure of the provider's calendar call
\* (None returned or an exception raised) does not keep the patient's calendar
\* call from being made when it is due, and a failure of either calendar call
\* does not keep the notification from being sent
C21_FaultIsolation ==
    \A p \in Procs :
        (pc[p] = "done" /\ view[p] = "book_appointment" /\ result[p] = "success")
        => /\ fx[p].doctor_event \in {"fail", "raise"} => fx[p].patient_event # "-"
           /\ ({fx[p].doctor_event, fx[p].patient_event} \cap {"fail", "raise"} # {})
              => fx[p].email # "-"

\* worker p returns success from handler v in this step
Succeeds(p, v) ==
    /\ view'[p] = v
    /\ pc[p] # "done" /\ pc'[p] = "done"
    /\ result'[p] = "success"

\* C22: the booked flag of a stored slot goes from false to true only in the
\* step in which a reserve on that slot returns success, and from true to
\* false only in the step in which a cancel returns success; no other step
\* (creation, deletion, failed reserve, rejected cancel) changes the flag of a
\* slot that stays stored
C22_FlagWriters ==
    [][\A k \in SlotIds :
          (slots[k] # NoRow /\ slots'[k] # NoRow
           /\ slots'[k].is_booked # slots[k].is_booked)
          => IF slots'[k].is_booked
             THEN \E p \in Procs : Succeeds(p, "book_appointment") /\ arg[p] = k
             ELSE \E p \in Procs : /\ Succeeds(p, "cancel_appointment")
                                   /\ obj[p].appt.availability = k]_vars

C22_Witness ==
    \E p, q \in Procs :
       /\ pc[p] = "done" /\ view[p] = "cancel_appointment" /\ result[p] = "success"
       /\ appts[arg[p]] # NoRow /\ ~slots[appts[arg[p]].availability].is_booked
       /\ pc[q] = "done" /\ view[q] = "book_appointment" /\ result[q] = "Error"
       /\ arg[q] = appts[arg[p]].availability

\* the handlers that a request can be in the middle of
Running(p) == pc[p] \notin {"idle", "done"}

C24_BadRequests ==
    (mail.pc \in {"handled", "done"}) =>
       IF \/ Falsy(mail.body.action)
          \/ Falsy(mail.body.to_email)
          \/ mail.body.action \notin Actions
       THEN mail.statusCode = 400 /\ mail.sent = "-"
       ELSE /\ mail.statusCode = 200 <=> mail.sent \in {"mock", "ok"}
            /\ mail.sent = "fail" => mail.statusCode = 500
            /\ mail.statusCode \in {200, 500}

\* C27: the request the booking view posts to the email service carries the
\* fields the handler requires, action and to_email, so that the handler
\* reaches the send and, when the send succeeds, answers 200
C27_BookingPayload ==
    (mail.pc \in {"handled", "done"} /\ mail.caller = "book_appointment")
    => /\ ~Falsy(mail.body.action)
       /\ ~Falsy(mail.body.to_email)
       /\ mail.sent # "-"
       /\ mail.smtp # "fail" => mail.statusCode = 200

\* the stored slots of doctor d on a date
SlotsOn(tbl, d, date) ==
    {k \in SlotIds : tbl[k] # NoRow /\ tbl[k].doctor = d /\ tbl[k].date = date}

\* the number of slots of a bulk request: floor((end - start) / d)
Count(range, dur) == (range.end_time - range.start_time) \div dur

\* the i-th slot of a bulk request, counted from 0
Generated(range, dur, i) ==
    [range EXCEPT !.start_time = range.start_time + i * dur,
                  !.end_time = range.start_time + (i + 1) * dur]

\* C25: when a bulk creation leaves its loop, each of the floor((end-start)/d)
\* slots [start + i*d, start + (i+1)*d) is stored exactly once and none of
\* them ends after end, a slot that was stored before being skipped; when the
\* doctor had no slot on that date, the request has created all of them and
\* they are the doctor's only slots of the date, none overlapping another
C25_BulkGeneration ==
    [][\A p \in Procs :
          (pc[p] = "bulk_create" /\ pc'[p] = "done"
           /\ result'[p] \in {"success", "NoneCreated"})
          => LET range == obj[p].slot
                 n == Count(range, arg[p])
                 on == SlotsOn(slots', range.doctor, range.date)
             IN  /\ \A i \in 0..(n - 1) :
                       /\ Cardinality(Identical(slots', Generated(range, arg[p], i))) = 1
                       /\ Generated(range, arg[p], i).end_time <= range.end_time
                 /\ obj[p].created <= n
                 /\ Cardinality(on) = obj[p].created
                    => /\ obj[p].created = n
                       /\ \A k \in on : \E i \in 0..(n - 1) :
                             slots'[k] = Generated(range, arg[p], i)
                       /\ \A j, k \in on : ~Overlap(slots', j, k)
                 /\ result'[p] = "success" <=> obj[p].created > 0]_vars

C25_Witness ==
    \E p \in Procs :
       /\ pc[p] = "done" /\ view[p] = "bulk_add_availability"
       /\ result[p] = "success"
       /\ arg[p] < TicksPerDay
       /\ \E j, k \in SlotIds :
             /\ j # k /\ slots[j] # NoRow /\ slots[k] # NoRow
             /\ slots[j].date = slots[k].date
             /\ slots[j].end_time = slots[k].start_time
             /\ slots[k].start_time - slots[j].start_time = arg[p]

\* C26: every Appointment with status confirmed is bound to a stored slot
\* whose booked flag is true
C26_ConfirmedIsBooked ==
    \A a \in ApptIds :
       (appts[a] # NoRow /\ appts[a].status = "confirmed")
       => /\ slots[appts[a].availability] # NoRow
          /\ slots[appts[a].availability].is_booked

\* C29: a bulk creation that ends in the rejection of one of its slots leaves
\* none of its slots stored: of the slots the loop has gone through, those
\* stored are at most the ones it skipped because they were stored before
C29_BulkAllOrNothing ==
    [][\A p \in Procs :
          (pc[p] = "bulk_create" /\ pc'[p] = "done" /\ result'[p] = "ServerError")
          => LET range == obj[p].slot
                 passes == (obj[p].current_start - range.start_time) \div arg[p]
                 stored == {i \in 0..(passes - 1) :
                               Identical(slots', Generated(range, arg[p], i)) # {}}
             IN  Cardinality(stored) <= passes - obj[p].created]_vars

\* the step is a request of the OAuth callback
CallbackStep == oauth'.view = "oauth2_callback" /\ oauth' # oauth

\* C28: the OAuth callback saves Google tokens on the user only if the session
\* holds the state written by a connect and the state parameter of the
\* callback equals it; a callback with a code and no state parameter, in a
\* session without a stored state, saves nothing; tokens saved without a new
\* refresh token leave the user's refresh token as it was
C28_CallbackState ==
    [][CallbackStep =>
          /\ oauth'.saved => /\ oauth.google_oauth_state # None
                             /\ oauth'.GET.state = oauth.google_oauth_state
          /\ (/\ oauth'.GET.code # None /\ oauth'.GET.state = None
              /\ oauth.google_oauth_state = None)
             => /\ ~oauth'.saved
                /\ oauth'.google_access_token = oauth.google_access_token
                /\ oauth'.google_refresh_token = oauth.google_refresh_token
          /\ (oauth'.saved /\ oauth'.tokens.refresh_token = None)
             => oauth'.google_refresh_token = oauth.google_refresh_token]_vars

\* the handlers of the book, cancel and delete-slot entry points
EntryPoints == {"book_appointment", "cancel_appointment", "delete_availability"}

\* C30: a request to book, cancel or delete whose method is not POST changes
\* no slot row and no Appointment row: no booked flag changes, no Appointment
\* is created, changed or removed, no slot is removed; the request returns in
\* its first step
C30_OnlyPostMutates ==
    [][\A p \in Procs :
          (Moves(p) /\ view'[p] \in EntryPoints /\ ~(method'[p] = "POST"))
          => /\ slots' = slots
             /\ appts' = appts
             /\ pc'[p] = "done"]_vars

C30_Witness ==
    \E p, q \in Procs :
       /\ pc[p] = "done" /\ view[p] = "cancel_appointment" /\ method[p] = "GET"
       /\ result[p] = "Page"
       /\ appts[arg[p]].status = "confirmed"
       /\ slots[appts[arg[p]].availability].is_booked
       /\ pc[q] = "done" /\ view[q] = "delete_availability" /\ method[q] = "GET"
       /\ result[q] = "Page"
       /\ slots[arg[q]] # NoRow
====
